---------------------------- MODULE Spec2Model ----------------------------
(***************************************************************************)
(* The trie of trie-search-plus (src/unnamed/part_001, the Trie class with *)
(* the web-worker batch path) and the worker script appended to            *)
(* src/src/trieNode.js.                                                    *)
(*                                                                         *)
(* A JavaScript string is a sequence of UTF-16 code units.  `for (const    *)
(* char of word)` iterates it by code point, so a surrogate pair is ONE    *)
(* edge label, while `word[i]` and `word.length` address code units.  The  *)
(* model keeps the two apart: a string is a sequence over Unit, an edge    *)
(* label is an element of Key, and CodePoints is the for..of iteration.    *)
(***************************************************************************)
EXTENDS Integers, Sequences, FiniteSets, TLC

(***************************************************************************)
(* Bounds of the model.                                                    *)
(***************************************************************************)
MaxLen == 2
MaxWords == 2

(***************************************************************************)
(* Strings.                                                                *)
(***************************************************************************)
\* UTF-16 code units: two BMP letters, the wildcard symbol, and the two
\* halves "H" (high surrogate) and "L" (low surrogate) of one astral character.
Unit == {"a", "b", ".", "H", "L"}

\* Edge labels (keys of node.children): one code point each.  "E" is the astral
\* character whose UTF-16 form is the pair H L; a lone "H" or "L" is a key too.
Key == {"a", "b", ".", "E", "H", "L"}

\* The characters stored words are made of.
Chars == {"a", "b", "E"}

\* The UTF-16 form of one code point.
UnitsOf(k) == IF k = "E" THEN <<"H", "L">> ELSE <<k>>

\* `for (const char of word)`: the string iterator pairs a high surrogate with
\* the low surrogate that follows it and yields every other unit alone.
RECURSIVE CodePoints(_)
CodePoints(s) ==
    IF s = <<>> THEN <<>>
    ELSE IF Len(s) >= 2 /\ s[1] = "H" /\ s[2] = "L"
         THEN <<"E">> \o CodePoints(SubSeq(s, 3, Len(s)))
         ELSE <<s[1]>> \o CodePoints(Tail(s))

\* `path + ch`: the string a path of edge labels spells.
RECURSIVE Str(_)
Str(p) == IF p = <<>> THEN <<>> ELSE UnitsOf(Head(p)) \o Str(Tail(p))

\* All sequences over S of length at most n.
SeqUpTo(S, n) == UNION {[1..k -> S] : k \in 0..n}

\* The words callers pass: well-formed strings of at most MaxLen characters.
Words == {Str(p) : p \in SeqUpTo(Chars, MaxLen)}

(***************************************************************************)
(* TrieNode and the tree.  A node is identified by the path of edge labels *)
(* from the root; `nodes` holds the paths of the nodes that exist and      *)
(* `eow` the paths of the nodes whose isEndOfWord flag is set.             *)
(***************************************************************************)
\* new TrieNode(): no children, isEndOfWord = false.
TrieNode == [nodes |-> {<<>>}, eow |-> {}]

\* node.children[k] (the child's path), for a child that exists.
HasChild(t, node, k) == Append(node, k) \in t.nodes

\* Object.keys(node.children).length === 0
Childless(t, node) == \A k \in Key : ~HasChild(t, node, k)

\* The order Object.entries(node.children) is walked in.  JavaScript walks the
\* keys in insertion order; every result is compared as a set, so a fixed
\* order stands for it.
KeyOrder == <<"a", "b", ".", "E", "H", "L">>

\* Object.entries that lists every child twice.
Entries_Twice(t, node) ==
    SelectSeq(KeyOrder \o KeyOrder, LAMBDA k : HasChild(t, node, k))

\* Object.entries(node.children): the keys of the children that exist.
Entries(t, node) == SelectSeq(KeyOrder, LAMBDA k : HasChild(t, node, k))

\* The elements of a sequence.
Range(s) == {s[i] : i \in 1..Len(s)}

\* p is a prefix of q.
IsPrefix(p, q) == Len(p) <= Len(q) /\ SubSeq(q, 1, Len(p)) = p

(***************************************************************************)
(* _insert(word)                                                           *)
(***************************************************************************)
RECURSIVE InsertWalk(_, _, _)
InsertWalk(t, node, rest) ==
    IF rest = <<>>
    THEN [t EXCEPT !.eow = @ \cup {node}]
    ELSE LET child == Append(node, Head(rest))
         IN  InsertWalk([t EXCEPT !.nodes = @ \cup {child}], child, Tail(rest))

\* _insert that flips the flag of the end node instead of setting it.
_insert_Flips(t, word) ==
    LET t1 == InsertWalk(t, <<>>, CodePoints(word))
    IN  IF CodePoints(word) \in t.eow
        THEN [t1 EXCEPT !.eow = @ \ {CodePoints(word)}] ELSE t1

_insert(t, word) == InsertWalk(t, <<>>, CodePoints(word))

(***************************************************************************)
(* search(word), startsWith(prefix)                                        *)
(***************************************************************************)
\* The value of node.children[k] for a child that does not exist (no path holds
\* this label, so it is no node).
Undefined == <<"undefined">>

\* The node the loop over the code points of a string ends on, or Undefined
\* when a child is missing on the way (the early return).
RECURSIVE Follow(_, _, _)
Follow(t, node, rest) ==
    IF rest = <<>> THEN node
    ELSE IF ~HasChild(t, node, Head(rest)) THEN Undefined
    ELSE Follow(t, Append(node, Head(rest)), Tail(rest))

search(t, word) ==
    LET node == Follow(t, <<>>, CodePoints(word))
    IN  IF node = Undefined THEN FALSE ELSE node \in t.eow

startsWith(t, prefix) == Follow(t, <<>>, CodePoints(prefix)) # Undefined

(***************************************************************************)
(* delete(word)                                                            *)
(***************************************************************************)
\* `delete node.children[char]`: the child and all below it leave the tree.
Detach(t, child) ==
    [nodes |-> {n \in t.nodes : ~IsPrefix(child, n)},
     eow   |-> {n \in t.eow : ~IsPrefix(child, n)}]

\* _deleteRecursively(node, word, depth): the tree it leaves and the boolean it
\* returns.  depth and word[depth] address UTF-16 code units.
RECURSIVE _deleteRecursively(_, _, _, _)
_deleteRecursively(t, node, word, depth) ==
    IF node = Undefined THEN [t |-> t, ret |-> FALSE]
    ELSE IF depth = Len(word)
    THEN IF node \notin t.eow
         THEN [t |-> t, ret |-> FALSE]
         ELSE LET t1 == [t EXCEPT !.eow = @ \ {node}]
              IN  [t |-> t1, ret |-> Childless(t1, node)]
    ELSE LET char  == word[depth + 1]
             child == IF HasChild(t, node, char) THEN Append(node, char)
                      ELSE Undefined
             r     == _deleteRecursively(t, child, word, depth + 1)
         IN  IF r.ret
             THEN LET t2 == Detach(r.t, child)
                  IN  [t |-> t2,
                       ret |-> node \notin t2.eow /\ Childless(t2, node)]
             ELSE [t |-> r.t, ret |-> FALSE]

\* delete that removes the end node of the word with all below it.
delete_CutsPath(t, word) ==
    LET node == Follow(t, <<>>, word)
    IN  IF node = Undefined \/ node = <<>> THEN t ELSE Detach(t, node)

\* delete that clears the flag of the end node and removes no node.
delete_UnmarkOnly(t, word) ==
    LET node == Follow(t, <<>>, word)
    IN  IF node = Undefined THEN t ELSE [t EXCEPT !.eow = @ \ {node}]

delete(t, word) == _deleteRecursively(t, <<>>, word, 0).t

(***************************************************************************)
(* autocomplete(prefix), listWords(), countWords()                         *)
(***************************************************************************)
\* dfs(currNode, path) of autocomplete and listWords: the strings it pushes,
\* in the order it pushes them.  ks is what is left of Object.entries.
RECURSIVE dfsCollect(_, _, _)
RECURSIVE dfsCollectEach(_, _, _, _)
dfsCollect(t, node, path) ==
    (IF node \in t.eow THEN <<path>> ELSE <<>>)
        \o dfsCollectEach(t, node, path, Entries(t, node))
dfsCollectEach(t, node, path, ks) ==
    IF ks = <<>> THEN <<>>
    ELSE dfsCollect(t, Append(node, Head(ks)), path \o UnitsOf(Head(ks)))
            \o dfsCollectEach(t, node, path, Tail(ks))

\* autocomplete without the isEndOfWord test on the prefix node itself.
autocomplete_SkipsPrefix(t, prefix) ==
    LET node == Follow(t, <<>>, CodePoints(prefix))
    IN  IF node = Undefined THEN <<>>
        ELSE dfsCollectEach(t, node, prefix, Entries(t, node))

autocomplete(t, prefix) ==
    LET node == Follow(t, <<>>, CodePoints(prefix))
    IN  IF node = Undefined THEN <<>> ELSE dfsCollect(t, node, prefix)

listWords(t) == dfsCollect(t, <<>>, <<>>)

\* dfs(node) of countWords: the number of count++ it runs.
RECURSIVE dfsCount(_, _)
RECURSIVE dfsCountEach(_, _, _)
dfsCount(t, node) ==
    (IF node \in t.eow THEN 1 ELSE 0) + dfsCountEach(t, node, Entries(t, node))
dfsCountEach(t, node, ks) ==
    IF ks = <<>> THEN 0
    ELSE dfsCount(t, Append(node, Head(ks))) + dfsCountEach(t, node, Tail(ks))

countWords(t) == dfsCount(t, <<>>)

(***************************************************************************)
(* fuzzySearch(word, maxDistance)                                          *)
(***************************************************************************)
\* Math.min over two numbers and over a row.
Min2(x, y) == IF x <= y THEN x ELSE y

RECURSIVE MinOf(_)
MinOf(row) ==
    IF Len(row) = 1 THEN row[1] ELSE Min2(row[1], MinOf(Tail(row)))

\* The loop `for (let i = 1; i < columns; i++)` that fills currRow.  JavaScript
\* index j is index j + 1 here; word[i - 1] and the last unit of prefix are
\* UTF-16 code units.
RECURSIVE RowLoop(_, _, _, _, _)
RowLoop(word, prefix, prevRow, currRow, i) ==
    IF ~(i < Len(word) + 1) THEN currRow
    ELSE LET insertCost  == currRow[i] + 1
             deleteCost  == prevRow[i + 1] + 1
             replaceCost == prevRow[i]
                            + (IF word[i] = prefix[Len(prefix)] THEN 0 ELSE 1)
         IN  RowLoop(word, prefix, prevRow,
                     Append(currRow,
                            Min2(insertCost, Min2(deleteCost, replaceCost))),
                     i + 1)

\* dfs that goes on only where the least entry of the row equals the bound.
Explore_AtBound(currRow, maxDistance) == MinOf(currRow) = maxDistance

\* Whether dfs goes on into the children of a node whose row is currRow.
Explore(currRow, maxDistance) == MinOf(currRow) <= maxDistance

\* dfs(node, prefix, prevRow) of fuzzySearch: the strings it pushes.
RECURSIVE fuzzyDfs(_, _, _, _, _, _)
RECURSIVE fuzzyDfsEach(_, _, _, _, _, _, _)
fuzzyDfs(t, word, maxDistance, node, prefix, prevRow) ==
    LET currRow == RowLoop(word, prefix, prevRow, <<prevRow[1] + 1>>, 1)
    IN  (IF currRow[Len(word) + 1] <= maxDistance /\ node \in t.eow
         THEN <<prefix>> ELSE <<>>)
        \o (IF Explore(currRow, maxDistance)
            THEN fuzzyDfsEach(t, word, maxDistance, node, prefix, currRow,
                              Entries(t, node))
            ELSE <<>>)
fuzzyDfsEach(t, word, maxDistance, node, prefix, row, ks) ==
    IF ks = <<>> THEN <<>>
    ELSE fuzzyDfs(t, word, maxDistance, Append(node, Head(ks)),
                  prefix \o UnitsOf(Head(ks)), row)
            \o fuzzyDfsEach(t, word, maxDistance, node, prefix, row, Tail(ks))

\* [...Array(word.length + 1).keys()]
FirstRow(word) == [j \in 1..(Len(word) + 1) |-> j - 1]

\* The loop over Object.entries(this.root.children): the root is never pushed.
fuzzySearch(t, word, maxDistance) ==
    fuzzyDfsEach(t, word, maxDistance, <<>>, <<>>, FirstRow(word),
                 Entries(t, <<>>))

(***************************************************************************)
(* wildcardSearch(word)                                                    *)
(***************************************************************************)
\* dfs(node, i, path) of wildcardSearch: the strings it pushes.  i and word[i]
\* address UTF-16 code units; node.children[ch] looks the unit up as a key.
RECURSIVE wildDfs(_, _, _, _, _)
RECURSIVE wildDfsEach(_, _, _, _, _, _)
wildDfs(t, word, node, i, path) ==
    IF i = Len(word)
    THEN IF node \in t.eow THEN <<path>> ELSE <<>>
    ELSE LET ch == word[i + 1]
         IN  IF ch = "."
             THEN wildDfsEach(t, word, node, i, path, Entries(t, node))
             ELSE IF HasChild(t, node, ch)
                  THEN wildDfs(t, word, Append(node, ch), i + 1, path \o <<ch>>)
                  ELSE <<>>
wildDfsEach(t, word, node, i, path, ks) ==
    IF ks = <<>> THEN <<>>
    ELSE wildDfs(t, word, Append(node, Head(ks)), i + 1,
                 path \o UnitsOf(Head(ks)))
            \o wildDfsEach(t, word, node, i, path, Tail(ks))

wildcardSearch(t, word) == wildDfs(t, word, <<>>, 0, <<>>)


(***************************************************************************)
(* Batch insertion: insert(words, options), the worker script, and the     *)
(* handlers of the main thread.  The operators below work on a record m    *)
(* of the fields of the Trie object and of what surrounds it:              *)
(*   root, stored     as the variables of the same name                    *)
(*   worker           this.worker: 0 for null, or the number of a worker   *)
(*   workers          the Worker objects created so far, in order          *)
(*   workerPromises   the keys of this.workerPromises                      *)
(*   promiseId        this.promiseId                                       *)
(*   timers           the pending setTimeout timers, in the order armed    *)
(*   calls            the insert(array, options) calls of the callers      *)
(***************************************************************************)
\* The most elements an input array has.
MaxBatch == 2

\* The number of insert(array, options) calls in one behaviour.
MaxCalls == 2

\* The array length above which insert() takes the worker path unasked and
\* _insertWithWorker does not fall back: 500000 in the source, scaled to the
\* arrays this model can hold.  An array of two chunks can be below it.
LargeInput == 2

\* The elements of input arrays: words of one-unit characters and the empty
\* string.
BatchWords == {<<>>, <<"a">>, <<"b">>}

\* Elements of input arrays that are not strings: a number (postMessage can
\* clone it) and a function (postMessage throws DataCloneError on it).
ANumber == <<"number">>
AFunction == <<"function">>
NotStrings == {ANumber, AFunction}

\* typeof word === 'string'
IsString(word) == word \notin NotStrings

\* Elements of every kind.
BatchElements == BatchWords \cup NotStrings

\* The words single insert and delete calls pass beside batches.
SingleWords == {<<"a">>, <<"b">>}

Calls == 1..MaxCalls

\* _chunkArray(array, chunkSize), for chunkSize >= 1: the loop from index i on
\* (index i of JavaScript is index i + 1 here).
RECURSIVE chunkLoop(_, _, _)
chunkLoop(array, chunkSize, i) ==
    IF ~(i < Len(array)) THEN <<>>
    ELSE <<SubSeq(array, i + 1, Min2(i + chunkSize, Len(array)))>>
            \o chunkLoop(array, chunkSize, i + chunkSize)

\* _chunkArray that keeps the full chunks only.
_chunkArray_FullOnly(array, chunkSize) ==
    SelectSeq(chunkLoop(array, chunkSize, 0), LAMBDA ch : Len(ch) = chunkSize)

\* _chunkArray that puts the whole array into one chunk.
_chunkArray_OneChunk(array, chunkSize) ==
    IF array = <<>> THEN <<>> ELSE <<array>>

_chunkArray(array, chunkSize) == chunkLoop(array, chunkSize, 0)

\* words.forEach(word => { if (typeof word === 'string' && word.length > 0)
\* this._insert(word) }) of _insertBatch: the tree it leaves.
RECURSIVE insertNonEmpty(_, _)
insertNonEmpty(t, words) ==
    IF words = <<>> THEN t
    ELSE insertNonEmpty(IF IsString(Head(words)) /\ Len(Head(words)) > 0
                        THEN _insert(t, Head(words))
                        ELSE t,
                        Tail(words))

\* _mergeNodes(words): words.forEach(word => this._insert(word)).
RECURSIVE _mergeNodes(_, _)
_mergeNodes(t, words) ==
    IF words = <<>> THEN t ELSE _mergeNodes(_insert(t, Head(words)), Tail(words))

\* The non-empty strings of an array.
NonEmpty(words) == {w \in Range(words) : IsString(w) /\ Len(w) > 0}

\* WorkerTrie.insertBatch(words) on the worker's module-level trie: the trie it
\* leaves (WorkerTrie.insert is the loop of _insert).
insertBatch(t, words) == insertNonEmpty(t, words)

\* WorkerTrie.serializeForMerge(): every word of the worker's trie.
serializeForMerge(t) == dfsCollect(t, <<>>, <<>>)

\* A timer armed by setTimeout: the idle cleanup, or the timeout of request id.
IdleTimer == [kind |-> "idle", id |-> 0]
RequestTimer(id) == [kind |-> "request", id |-> id]

\* The timeout callback of a request whose key has left workerPromises does
\* nothing when it runs (`if (this.workerPromises.has(id))`): such a timer is
\* left out of the queue as soon as the key leaves the map.
Pending(m) ==
    [m EXCEPT !.timers =
        SelectSeq(@, LAMBDA x : x.kind = "idle" \/ x.id \in m.workerPromises)]

\* _scheduleWorkerCleanup(): the pending idle timer is cleared and a new one
\* armed.
_scheduleWorkerCleanup(m) ==
    [m EXCEPT !.timers =
        Append(SelectSeq(@, LAMBDA x : x.kind # "idle"), IdleTimer)]

\* A call that was not made yet.
NoCall ==
    [pc |-> "idle", words |-> <<>>, chunkSize |-> 1, i |-> 0,
     processedCount |-> 0, id |-> 0, made |-> 0, caught |-> FALSE,
     threw |-> FALSE, onProgress |-> FALSE, reports |-> <<>>,
     ci |-> 0, pushed |-> 0,
     result |-> [success |-> FALSE, processed |-> 0]]

\* A call ends: the value its promise resolves to.  The locals of the call are
\* gone; `caught` keeps whether its catch block ran, and `reports` what its
\* callback was handed.
Finish(m, c, result) ==
    [m EXCEPT !.calls[c] = [NoCall EXCEPT !.pc = "done", !.result = result,
                                          !.caught = m.calls[c].caught,
                                          !.threw = m.calls[c].threw,
                                          !.onProgress = m.calls[c].onProgress,
                                          !.reports = m.calls[c].reports]]

\* Math.round((processedCount / total) * 100), for total > 0.
Percentage(processedCount, total) == (200 * processedCount + total) \div (2 * total)

\* `if (onProgress) { onProgress({processed, total, percentage}) }`: the
\* callback of call c, when one was passed, is handed the report; `reports`
\* lists what it was handed so far.
Progress(m, c, processed, total, percentage) ==
    IF m.calls[c].onProgress
    THEN [m EXCEPT !.calls[c].reports =
             Append(@, [processed |-> processed, total |-> total,
                        percentage |-> percentage])]
    ELSE m

\* _insertBatch that never calls onProgress.
_insertBatch_Silent(m, c) ==
    LET words == m.calls[c].words
        m1 == [m EXCEPT !.root = insertNonEmpty(@, words),
                        !.stored = @ \cup NonEmpty(words)]
    IN  Finish(m1, c, [success |-> TRUE, processed |-> Len(words)])

\* _insertBatch(words, onProgress)
_insertBatch(m, c) ==
    LET words == m.calls[c].words
        m1 == [m EXCEPT !.root = insertNonEmpty(@, words),
                        !.stored = @ \cup NonEmpty(words)]
        m2 == Progress(m1, c, Len(words), Len(words), 100)
    IN  Finish(m2, c, [success |-> TRUE, processed |-> Len(words)])

\* The catch block of _insertWithWorker.
Catch(m, c) ==
    LET m1 == _scheduleWorkerCleanup([m EXCEPT !.calls[c].caught = TRUE])
    IN  IF Len(m.calls[c].words) <= LargeInput
        THEN _insertBatch(m1, c)
        ELSE Finish(m1, c, [success |-> FALSE, processed |-> 0])

\* _sendToWorker({words: chunk}), up to the await on its promise.  With
\* this.worker null, or with an element the structured clone refuses,
\* postMessage throws inside the executor: the promise is rejected at once,
\* its entry stays in workerPromises, no timer is armed, and the call goes on
\* in its catch block (`threw` keeps that this happened).
_sendToWorker(m, c, chunk) ==
    LET id == m.promiseId + 1
        m1 == [m EXCEPT !.promiseId = id,
                        !.workerPromises = @ \cup {id},
                        !.calls[c].id = id]
    IN  IF m.worker = 0 \/ AFunction \in Range(chunk)
        THEN Catch([m1 EXCEPT !.calls[c].threw = TRUE], c)
        ELSE [m1 EXCEPT
                !.workers[m.worker].inbox =
                    IF m.workers[m.worker].alive
                    THEN Append(@, [id |-> id, words |-> chunk]) ELSE @,
                !.timers = Append(@, RequestTimer(id)),
                !.calls[c].pc = "awaitReply"]

\* The for loop of _insertWithWorker at `i < chunks.length`: the next chunk is
\* sent, or the loop is over and the call returns.
LoopHead(m, c) ==
    LET call   == m.calls[c]
        chunks == _chunkArray(call.words, call.chunkSize)
    IN  IF call.i < Len(chunks)
        THEN _sendToWorker(m, c, chunks[call.i + 1])
        ELSE Finish(m, c, [success |-> TRUE, processed |-> call.processedCount])

\* The most iterations of a loop that does not end the model follows.
MaxSpin == 2

\* `const chunks = this._chunkArray(words, chunkSize)` and the start of the
\* for loop.  With chunkSize below 1 and a non-empty array the loop of
\* _chunkArray, `for (let i = 0; i < array.length; i += chunkSize)`, never
\* makes its test false: the call stays inside it (pc "chunking", ci its
\* index i, pushed the length of chunks) and the main thread with it.
StartLoop(m, c) ==
    IF m.calls[c].chunkSize < 1 /\ m.calls[c].words # <<>>
    THEN [m EXCEPT !.calls[c].pc = "chunking"]
    ELSE LoopHead(m, c)

\* The loop body after `await this._sendToWorker(...)` gave processedNodes.
AfterReply(m, c, processedNodes) ==
    LET call   == m.calls[c]
        chunk  == _chunkArray(call.words, call.chunkSize)[call.i + 1]
        m1 == [m EXCEPT !.root = _mergeNodes(@, processedNodes),
                        !.stored = @ \cup NonEmpty(chunk)]
        m2 == _scheduleWorkerCleanup(m1)
        processedCount == call.processedCount + Len(chunk)
        m3 == [m2 EXCEPT !.calls[c].processedCount = processedCount]
        m4 == Progress(m3, c, processedCount, Len(call.words),
                       Percentage(processedCount, Len(call.words)))
    IN  LoopHead([m4 EXCEPT !.calls[c].i = @ + 1], c)

\* The call that awaits the promise of request id (0: none does).
Awaiting(m, id) ==
    IF \E c \in Calls : m.calls[c].pc = "awaitReply" /\ m.calls[c].id = id
    THEN CHOOSE c \in Calls : m.calls[c].pc = "awaitReply" /\ m.calls[c].id = id
    ELSE 0

\* promise.reject(...) for request id: the awaiting call goes on in its catch
\* block.
Reject(m, id) ==
    IF Awaiting(m, id) = 0 THEN m ELSE Catch(m, Awaiting(m, id))

\* promise.resolve(result) for request id.
Resolve(m, id, result) ==
    IF Awaiting(m, id) = 0 THEN m ELSE AfterReply(m, Awaiting(m, id), result)

\* worker.onmessage of the main thread.
onmessage(m, data) ==
    IF data.id \in m.workerPromises
    THEN LET m1 == Pending([m EXCEPT !.workerPromises = @ \ {data.id}])
         IN  IF data.success THEN Resolve(m1, data.id, data.result)
             ELSE Reject(m1, data.id)
    ELSE m

\* worker.onerror of the main thread: every pending promise is rejected, in
\* the order of the map, and the map is cleared.
RECURSIVE rejectAll(_, _)
rejectAll(m, ids) ==
    IF ids = {} THEN m
    ELSE LET id == CHOOSE x \in ids : \A y \in ids : x <= y
         IN  rejectAll(Reject(m, id), ids \ {id})

onerror(m) ==
    Pending([rejectAll(m, m.workerPromises) EXCEPT !.workerPromises = {}])

\* The timeout callback that rejects and leaves the entry in the map.
ontimeout_KeepsEntry(m, id) ==
    IF id \in m.workerPromises THEN Reject(m, id) ELSE m

\* The timeout callback of _sendToWorker for request id.
ontimeout(m, id) ==
    IF id \in m.workerPromises
    THEN Reject([m EXCEPT !.workerPromises = @ \ {id}], id)
    ELSE m

\* worker.terminate(): the worker stops and its queued messages are dropped.
Terminated(w) == [w EXCEPT !.alive = FALSE, !.inbox = <<>>, !.outbox = <<>>]

\* _cleanup()
_cleanup(m) ==
    Pending([m EXCEPT !.workers = IF m.worker = 0 THEN @
                                  ELSE [@ EXCEPT ![m.worker] = Terminated(@)],
                      !.worker = 0,
                      !.timers = SelectSeq(@, LAMBDA x : x.kind # "idle"),
                      !.workerPromises = {}])

\* new Worker(...): a fresh module scope, so a fresh module-level trie.
NewWorker == [alive |-> TRUE, trie |-> TrieNode, inbox |-> <<>>, outbox |-> <<>>]

\* self.onmessage of the worker script for the message at the head of its
\* queue: the reply it posts.  ok = FALSE: insertBatch or serializeForMerge
\* threw after the inserts (the catch branch).
WorkerReply(w, ok) ==
    LET msg == Head(w.inbox)
        t   == insertBatch(w.trie, msg.words)
    IN  [w EXCEPT !.trie = t,
                  !.inbox = Tail(@),
                  !.outbox = Append(@,
                      IF ok THEN [id |-> msg.id, success |-> TRUE,
                                  result |-> serializeForMerge(t)]
                      ELSE [id |-> msg.id, success |-> FALSE, result |-> <<>>])]

(***************************************************************************)
(* The state of one Trie object and of its callers.                        *)
(***************************************************************************)
VARIABLES
    root,            \* this.root: the tree
    stored,          \* the strings passed to an insert and not to a delete since
    last,            \* the most recent single call: its name and its argument
    before,          \* this.root as it was when that call started
    passed,          \* the strings handed to an insert call, no delete call since
    worker,          \* this.worker
    workers,         \* the Worker objects created so far
    workerPromises,  \* this.workerPromises
    promiseId,       \* this.promiseId
    timers,          \* the pending timers
    calls            \* the batch calls

trieVars == <<root, stored>>
noteVars == <<last, before, passed>>
batchVars == <<worker, workers, workerPromises, promiseId, timers, calls>>
vars == <<root, stored, last, before, passed,
          worker, workers, workerPromises, promiseId, timers, calls>>

\* constructor(): an empty root, no worker; nothing was called yet.
Init ==
    /\ root = TrieNode
    /\ stored = {}
    /\ last = [op |-> "new", arg |-> <<>>, found |-> FALSE, prefix |-> FALSE]
    /\ before = TrieNode
    /\ passed = {}
    /\ worker = 0
    /\ workers = <<>>
    /\ workerPromises = {}
    /\ promiseId = 0
    /\ timers = <<>>
    /\ calls = [c \in Calls |-> NoCall]

\* trie.insert(word) with a string: insert() takes the else branch and runs
\* this._insert(input).
Insert(word) ==
    /\ Cardinality(root.eow \cup {CodePoints(word)}) <= MaxWords
    /\ root' = _insert(root, word)
    /\ stored' = stored \cup {word}

\* trie.delete(word)
Delete(word) ==
    /\ root' = delete(root, word)
    /\ stored' = stored \ {word}

\* The single-word calls on the trie, one after the other.
Next ==
    \/ \E word \in Words :
          Insert(word) /\ UNCHANGED noteVars /\ UNCHANGED batchVars
    \/ \E word \in Words :
          Delete(word) /\ UNCHANGED noteVars /\ UNCHANGED batchVars

Spec == Init /\ [][Next]_vars

\* The same calls, each one noted in `last`: its name, its argument, whether
\* search(argument) was true when it started, and whether the argument was
\* then a non-empty prefix of a word the tree holds.
Last(op, word, arg) ==
    last' = [op |-> op, arg |-> arg,
             found  |-> op # "batch" /\ search(root, word),
             prefix |-> op # "batch" /\ word # <<>> /\ startsWith(root, word)]

\* Calls with words over a one-unit character and an astral one, the tree
\* holding one word more.
FewChars == {"a", "E"}
FewWords == {Str(p) : p \in SeqUpTo(FewChars, MaxLen)}

InsertFew(word) ==
    /\ Cardinality(root.eow \cup {CodePoints(word)}) <= MaxWords + 1
    /\ root' = _insert(root, word)
    /\ stored' = stored \cup {word}

\* Only the name of the call and whether its word was found are kept.
NextLast ==
    \/ \E word \in FewWords :
          /\ InsertFew(word) /\ Last("insert", word, <<>>)
          /\ UNCHANGED <<before, passed>> /\ UNCHANGED batchVars
    \/ \E word \in FewWords :
          /\ Delete(word) /\ Last("delete", word, <<>>)
          /\ UNCHANGED <<before, passed>> /\ UNCHANGED batchVars

SpecLast == Init /\ [][NextLast]_vars

\* Inserts and deletes of such words, nothing noted.
NextFew ==
    \/ \E word \in FewWords :
          InsertFew(word) /\ UNCHANGED noteVars /\ UNCHANGED batchVars
    \/ \E word \in FewWords :
          Delete(word) /\ UNCHANGED noteVars /\ UNCHANGED batchVars

SpecFew == Init /\ [][NextFew]_vars

\* Inserts alone: every set of such words is a tree they build.
NextInserts ==
    \E word \in FewWords :
        /\ InsertFew(word) /\ Last("insert", word, <<>>)
        /\ UNCHANGED <<before, passed>> /\ UNCHANGED batchVars

SpecInserts == Init /\ [][NextInserts]_vars

\* The same calls, each one noted with the tree it started from as well.
Noted(op, word) ==
    /\ Last(op, word, word)
    /\ before' = root
    /\ passed' = CASE op = "insert" -> passed \cup {word}
                   [] op = "delete" -> passed \ {word}
                   [] OTHER         -> passed \cup Range(word)

NextNoted ==
    \/ \E word \in Words :
          Insert(word) /\ Noted("insert", word) /\ UNCHANGED batchVars
    \/ \E word \in Words :
          Delete(word) /\ Noted("delete", word) /\ UNCHANGED batchVars

SpecNoted == Init /\ [][NextNoted]_vars

(***************************************************************************)
(* Batch calls, the worker and the event loop of the main thread.  Each    *)
(* action is one run-to-completion piece of JavaScript: the code between   *)
(* two awaits, one event handler, or one message handled by the worker.    *)
(***************************************************************************)
\* The input arrays callers pass.
Batches == SeqUpTo(BatchWords, MaxBatch)

\* The input arrays of a caller that makes one call: up to one element more
\* than the threshold, of words or of elements of every kind, and the chunk
\* sizes that go with them.
LongBatches == SeqUpTo(BatchWords, LargeInput + 1)
LongArrays == SeqUpTo(BatchElements, LargeInput + 1)
ChunkSizes == 1..(LargeInput + 1)

\* The fields of the Trie object and what surrounds it, as one record.
M ==
    [root |-> root, stored |-> stored, worker |-> worker, workers |-> workers,
     workerPromises |-> workerPromises, promiseId |-> promiseId,
     timers |-> timers, calls |-> calls]

\* The next state holds the fields of m.
Becomes(m) ==
    /\ root' = m.root
    /\ stored' = m.stored
    /\ worker' = m.worker
    /\ workers' = m.workers
    /\ workerPromises' = m.workerPromises
    /\ promiseId' = m.promiseId
    /\ timers' = m.timers
    /\ calls' = m.calls

\* insert(input, options) with an array, up to its first await.  canCreate
\* tells whether `new Worker(...)` succeeds in this environment; onProgress
\* whether options hold a callback (FALSE: the default, null).
insertArray(m, c, input, useWorker, chunkSize, canCreate, onProgress) ==
    LET viaWorker == useWorker \/ Len(input) > LargeInput
        m0 == [m EXCEPT !.calls[c] =
                  [NoCall EXCEPT !.words = input,
                                 !.chunkSize = IF viaWorker THEN chunkSize ELSE 1,
                                 !.onProgress = onProgress]]
    IN  IF ~viaWorker THEN _insertBatch(m0, c)
        ELSE IF m.worker # 0 THEN StartLoop(m0, c)
        ELSE IF canCreate
        THEN [m0 EXCEPT !.workers = Append(@, NewWorker),
                        !.calls[c].made = Len(m.workers) + 1,
                        !.calls[c].pc = "awaitCreate"]
        ELSE [m0 EXCEPT !.calls[c].pc = "awaitCreate"]

\* A continuation is waiting in the microtask queue, or a call has not left
\* the loop of _chunkArray: it runs before any timer or message event.
MicrotaskPending == \E c \in Calls : calls[c].pc \in {"awaitCreate", "chunking"}

\* A caller starts insert(input, {useWorker, chunkSize}).
BatchInsert(c, input, useWorker, chunkSize, canCreate) ==
    /\ calls[c].pc = "idle"
    /\ \A d \in Calls : d < c => calls[d].pc # "idle"
    /\ Becomes(insertArray(M, c, input, useWorker, chunkSize, canCreate, FALSE))

\* A caller starts insert(input, {useWorker, chunkSize, onProgress}) with a
\* callback.
BatchInsertProgress(c, input, useWorker, chunkSize, canCreate) ==
    /\ calls[c].pc = "idle"
    /\ \A d \in Calls : d < c => calls[d].pc # "idle"
    /\ Becomes(insertArray(M, c, input, useWorker, chunkSize, canCreate, TRUE))

\* `this.worker = await this._createWorker()` goes on: the worker is assigned
\* and the loop starts, or _createWorker threw and the catch block runs.
ResumeCreate(c) ==
    /\ calls[c].pc = "awaitCreate"
    /\ \A d \in Calls : d < c => calls[d].pc # "awaitCreate"
    /\ Becomes(IF calls[c].made = 0 THEN Catch(M, c)
               ELSE StartLoop([M EXCEPT !.worker = calls[c].made], c))

\* One more iteration of the loop of _chunkArray that a call is inside of:
\* chunks.push(array.slice(i, i + chunkSize)) and i += chunkSize, after which
\* i < array.length holds again.
ChunkSpin(c) ==
    /\ calls[c].pc = "chunking"
    /\ calls[c].pushed < MaxSpin
    /\ calls[c].ci < Len(calls[c].words)
    /\ calls' = [calls EXCEPT ![c].pushed = @ + 1,
                              ![c].ci = @ + calls[c].chunkSize]
    /\ UNCHANGED <<root, stored, worker, workers, workerPromises, promiseId,
                   timers>>

\* The worker handles the message at the head of its queue.
WorkerRun(w, ok) ==
    /\ w \in DOMAIN workers
    /\ workers[w].alive
    /\ workers[w].inbox # <<>>
    /\ workers' = [workers EXCEPT ![w] = WorkerReply(@, ok)]
    /\ UNCHANGED <<root, stored, worker, workerPromises, promiseId, timers, calls>>

\* The main thread handles the next reply of worker w.
Message(w) ==
    /\ ~MicrotaskPending
    /\ w \in DOMAIN workers
    /\ workers[w].outbox # <<>>
    /\ Becomes(onmessage([M EXCEPT !.workers[w].outbox = Tail(@)],
                         Head(workers[w].outbox)))

\* The timer armed first fires (every timer runs 30000 ms).
TimerFires ==
    /\ ~MicrotaskPending
    /\ timers # <<>>
    /\ LET m == [M EXCEPT !.timers = Tail(@)]
       IN  Becomes(IF Head(timers).kind = "idle" THEN _cleanup(m)
                   ELSE ontimeout(m, Head(timers).id))

\* Worker w raises an error event (its script fails) and handles nothing more.
WorkerError(w) ==
    /\ ~MicrotaskPending
    /\ w \in DOMAIN workers
    /\ workers[w].alive
    /\ Becomes(onerror([M EXCEPT !.workers[w] = Terminated(@)]))

\* A single insert or delete beside the batch calls.
SingleInsert(word) ==
    /\ Insert(word)
    /\ UNCHANGED batchVars

SingleDelete(word) ==
    /\ Delete(word)
    /\ UNCHANGED batchVars

NextBatch ==
    \/ \E c \in Calls, input \in Batches, useWorker \in BOOLEAN,
         chunkSize \in 1..MaxBatch, canCreate \in BOOLEAN :
           /\ BatchInsert(c, input, useWorker, chunkSize, canCreate)
           /\ UNCHANGED noteVars
    \/ \E c \in Calls : ResumeCreate(c) /\ UNCHANGED noteVars
    \/ \E w \in Calls, ok \in BOOLEAN : WorkerRun(w, ok) /\ UNCHANGED noteVars
    \/ \E w \in Calls : Message(w) /\ UNCHANGED noteVars
    \/ TimerFires /\ UNCHANGED noteVars
    \/ \E w \in Calls : WorkerError(w) /\ UNCHANGED noteVars
    \/ \E word \in SingleWords : SingleInsert(word) /\ UNCHANGED noteVars
    \/ \E word \in SingleWords : SingleDelete(word) /\ UNCHANGED noteVars

SpecBatch == Init /\ [][NextBatch]_vars

\* The callers that await every batch call before they call again: a call
\* starts only when none is in flight, and is noted in `last` and `before`.
InFlight == \E c \in Calls : calls[c].pc \notin {"idle", "done"}

NextAwaited ==
    \/ \E c \in Calls, input \in Batches, useWorker \in BOOLEAN,
         chunkSize \in 1..MaxBatch, canCreate \in BOOLEAN :
           /\ ~InFlight
           /\ BatchInsert(c, input, useWorker, chunkSize, canCreate)
           /\ Noted("batch", input)
    \/ \E word \in SingleWords :
          ~InFlight /\ SingleInsert(word) /\ Noted("insert", word)
    \/ \E word \in SingleWords :
          ~InFlight /\ SingleDelete(word) /\ Noted("delete", word)
    \/ \E c \in Calls : ResumeCreate(c) /\ UNCHANGED noteVars
    \/ \E w \in Calls, ok \in BOOLEAN : WorkerRun(w, ok) /\ UNCHANGED noteVars
    \/ \E w \in Calls : Message(w) /\ UNCHANGED noteVars
    \/ TimerFires /\ UNCHANGED noteVars
    \/ \E w \in Calls : WorkerError(w) /\ UNCHANGED noteVars

SpecAwaited == Init /\ [][NextAwaited]_vars

\* The event loop of the main thread runs every continuation, message event
\* and timer that is due; the worker is not bound to answer.
EventLoop ==
    /\ WF_vars(\E c \in Calls : ResumeCreate(c) /\ UNCHANGED noteVars)
    /\ WF_vars(\E w \in Calls : Message(w) /\ UNCHANGED noteVars)
    /\ WF_vars(TimerFires /\ UNCHANGED noteVars)

\* One caller that makes one batch call and waits for it.
NextOneCall ==
    \/ \E input \in Batches, useWorker \in BOOLEAN,
         chunkSize \in 1..MaxBatch, canCreate \in BOOLEAN :
           /\ BatchInsert(1, input, useWorker, chunkSize, canCreate)
           /\ Noted("batch", input)
    \/ \E c \in Calls : ResumeCreate(c) /\ UNCHANGED noteVars
    \/ \E w \in Calls, ok \in BOOLEAN : WorkerRun(w, ok) /\ UNCHANGED noteVars
    \/ \E w \in Calls : Message(w) /\ UNCHANGED noteVars
    \/ TimerFires /\ UNCHANGED noteVars
    \/ \E w \in Calls : WorkerError(w) /\ UNCHANGED noteVars

SpecOneCall == Init /\ [][NextOneCall]_vars /\ EventLoop

\* The same caller with any integer for chunkSize, zero and a negative one
\* among them.
ChunkOptions == (0 - 1)..MaxBatch

NextAnyChunk ==
    \/ \E input \in Batches, useWorker \in BOOLEAN,
         chunkSize \in ChunkOptions, canCreate \in BOOLEAN :
           /\ BatchInsert(1, input, useWorker, chunkSize, canCreate)
           /\ Noted("batch", input)
    \/ \E c \in Calls : ResumeCreate(c) /\ UNCHANGED noteVars
    \/ \E c \in Calls : ChunkSpin(c) /\ UNCHANGED noteVars
    \/ \E w \in Calls, ok \in BOOLEAN : WorkerRun(w, ok) /\ UNCHANGED noteVars
    \/ \E w \in Calls : Message(w) /\ UNCHANGED noteVars
    \/ TimerFires /\ UNCHANGED noteVars
    \/ \E w \in Calls : WorkerError(w) /\ UNCHANGED noteVars

SpecAnyChunk ==
    /\ Init /\ [][NextAnyChunk]_vars
    /\ EventLoop
    /\ WF_vars(\E c \in Calls : ChunkSpin(c) /\ UNCHANGED noteVars)

\* The same caller with arrays that can be longer than the threshold.
NextLongCall ==
    \/ \E input \in LongBatches, useWorker \in BOOLEAN,
         chunkSize \in ChunkSizes, canCreate \in BOOLEAN :
           /\ BatchInsert(1, input, useWorker, chunkSize, canCreate)
           /\ Noted("batch", input)
    \/ \E c \in Calls : ResumeCreate(c) /\ UNCHANGED noteVars
    \/ \E w \in Calls, ok \in BOOLEAN : WorkerRun(w, ok) /\ UNCHANGED noteVars
    \/ \E w \in Calls : Message(w) /\ UNCHANGED noteVars
    \/ TimerFires /\ UNCHANGED noteVars
    \/ \E w \in Calls : WorkerError(w) /\ UNCHANGED noteVars

SpecLongCall == Init /\ [][NextLongCall]_vars

\* The same caller after single inserts of its own (the empty string among
\* the words), so that the batch call starts from any tree, and with input
\* arrays that hold elements of every kind.
NextPrepared ==
    \/ \E word \in BatchWords :
          /\ calls[1].pc = "idle"
          /\ SingleInsert(word)
          /\ Noted("insert", word)
    \/ \E input \in LongArrays, useWorker \in BOOLEAN,
         chunkSize \in ChunkSizes, canCreate \in BOOLEAN :
           /\ BatchInsert(1, input, useWorker, chunkSize, canCreate)
           /\ Noted("batch", input)
    \/ \E c \in Calls : ResumeCreate(c) /\ UNCHANGED noteVars
    \/ \E w \in Calls, ok \in BOOLEAN : WorkerRun(w, ok) /\ UNCHANGED noteVars
    \/ \E w \in Calls : Message(w) /\ UNCHANGED noteVars
    \/ TimerFires /\ UNCHANGED noteVars
    \/ \E w \in Calls : WorkerError(w) /\ UNCHANGED noteVars

SpecPrepared == Init /\ [][NextPrepared]_vars

\* One caller that makes one batch call with a progress callback, of an array
\* with elements of every kind.
NextProgress ==
    \/ \E input \in LongArrays, useWorker \in BOOLEAN,
         chunkSize \in ChunkSizes, canCreate \in BOOLEAN :
           /\ BatchInsertProgress(1, input, useWorker, chunkSize, canCreate)
           /\ Noted("batch", input)
    \/ \E c \in Calls : ResumeCreate(c) /\ UNCHANGED noteVars
    \/ \E w \in Calls, ok \in BOOLEAN : WorkerRun(w, ok) /\ UNCHANGED noteVars
    \/ \E w \in Calls : Message(w) /\ UNCHANGED noteVars
    \/ TimerFires /\ UNCHANGED noteVars
    \/ \E w \in Calls : WorkerError(w) /\ UNCHANGED noteVars

SpecProgress == Init /\ [][NextProgress]_vars

(***************************************************************************)
(* What the claims compare the code with.  A word is a sequence of         *)
(* characters (code points); its length and its prefixes are counted in    *)
(* characters.                                                             *)
(***************************************************************************)
\* The largest distance bound fuzzySearch is asked with.
MaxDist == 2

\* The strings the tree holds: those whose end node is marked.
StoredIn(t) == {Str(n) : n \in t.eow}

\* The patterns callers pass: characters and the wildcard symbol.
Patterns == {Str(p) : p \in SeqUpTo(Chars \cup {"."}, MaxLen)}

\* Levenshtein distance of two sequences of characters.
RECURSIVE Lev(_, _)
Lev(x, y) ==
    IF x = <<>> THEN Len(y)
    ELSE IF y = <<>> THEN Len(x)
    ELSE Min2(Lev(Tail(x), y) + 1,
              Min2(Lev(x, Tail(y)) + 1,
                   Lev(Tail(x), Tail(y)) + (IF Head(x) = Head(y) THEN 0 ELSE 1)))

\* Word w has the shape of pattern p: as long as p, and equal to p wherever p
\* is not the wildcard.
Matches(p, w) ==
    LET pc == CodePoints(p)
        wc == CodePoints(w)
    IN  /\ Len(pc) = Len(wc)
        /\ \A i \in 1..Len(pc) : pc[i] = "." \/ pc[i] = wc[i]

(***************************************************************************)
(* Claims.                                                                 *)
(***************************************************************************)
\* C1: after any sequence of single-word inserts and deletes, search(W) is
\* true exactly when W was inserted and not deleted since.
C1_SearchIffStored ==
    \A w \in Words : search(root, w) <=> w \in stored

\* C2: when delete(W) directly follows insert(W), search(W) is false after the
\* delete and search(V) is, for every other word V, what it was before the
\* insert.
C2_InsertDeleteClears ==
    [][(last.op = "insert" /\ last'.op = "delete" /\ last'.arg = last.arg)
        => /\ ~search(root', last.arg)
           /\ \A v \in Words \ {last.arg} :
                  search(root', v) = search(before, v)]_vars

\* C3: countWords() is the length of listWords(), both are the number of
\* distinct words inserted and not deleted since, and listWords() is exactly
\* that set.
C3_CountListStored ==
    /\ countWords(root) = Len(listWords(root))
    /\ countWords(root) = Cardinality(stored)
    /\ Range(listWords(root)) = stored

\* C4: autocomplete(P) returns exactly the words the trie holds that start
\* with P (P itself when it is held), and nothing when no held word does.
C4_AutocompleteExact ==
    \A p \in Words :
        Range(autocomplete(root, p)) = {w \in StoredIn(root) : IsPrefix(p, w)}

\* C4 witness: autocomplete(p) for a non-empty p returns the held words that
\* start with p, p itself among them, and leaves out another held word.
C4_Witness ==
    \E p \in Words, w \in Words :
        /\ p # <<>>
        /\ IsPrefix(p, w)
        /\ {p, w} \subseteq Range(autocomplete(root, p))
        /\ StoredIn(root) \ Range(autocomplete(root, p)) # {}

\* C5: fuzzySearch(W, d) returns exactly the held words (the empty string too)
\* whose Levenshtein distance to W is at most d.
C5_FuzzyExact ==
    \A w \in Words, d \in 0..MaxDist :
        Range(fuzzySearch(root, w, d))
            = {x \in StoredIn(root) : Lev(CodePoints(x), CodePoints(w)) <= d}

\* C6: wildcardSearch(P) returns exactly the held words that are as long as P
\* and agree with P wherever P is not '.'.
C6_WildcardExact ==
    \A p \in Patterns :
        Range(wildcardSearch(root, p)) = {w \in StoredIn(root) : Matches(p, w)}

\* C7: startsWith(P) is true exactly when P is empty or a prefix of a word
\* inserted and not deleted since, so it is false again once every word with
\* prefix P has been deleted.
C7_StartsWithIffPrefix ==
    \A p \in Words :
        startsWith(root, p) <=> (p = <<>> \/ \E w \in stored : IsPrefix(p, w))


\* C8: a batch insert of non-empty strings that resolves with success leaves
\* the trie as sequential single-word inserts of the same input leave the trie
\* the call started from (callers await the call, so nothing else writes).
C8_BatchAsSequential ==
    [][\A c \in Calls :
         (/\ calls[c].pc # "done"
          /\ calls'[c].pc = "done"
          /\ calls'[c].result.success
          /\ \A i \in 1..Len(last'.arg) : Len(last'.arg[i]) > 0)
         => root' = _mergeNodes(before', last'.arg)]_vars

\* C9: with callers that await every call, a word that was written by an
\* insert and not handed to delete since is terminal, and a terminal word was
\* handed to an insert call (alone or in a batch) with no delete call since.
C9_TerminalIffStored ==
    \A w \in BatchWords :
        /\ w \in stored => search(root, w)
        /\ search(root, w) => w \in passed

\* C10: when the catch block of a worker-path call ran (the delegation
\* failed), the call resolves with success and every non-empty string of its
\* input is searchable.
C10_FallbackAlways ==
    [][\A c \in Calls :
         (calls[c].pc # "done" /\ calls'[c].pc = "done" /\ calls'[c].caught)
         => /\ calls'[c].result.success
            /\ \A w \in NonEmpty(calls[c].words) : search(root', w)]_vars


\* C11: a worker-path batch insert that waits for the reply to a chunk
\* eventually resolves (by the reply, a worker error event or the timeout).
C11_EventuallyResolves ==
    \A c \in Calls : (calls[c].pc = "awaitReply") ~> (calls[c].pc = "done")

\* C12: the tree has no dead branch: every childless node other than the root
\* is terminal.
C12_NoDeadBranch ==
    \A n \in root.nodes \ {<<>>} : Childless(root, n) => n \in root.eow

\* C12 witness: a delete of a stored word has just run and left a branch
\* whose inner node is not terminal.
C12_Witness ==
    /\ last.op = "delete"
    /\ last.found
    /\ \E n \in root.nodes \ {<<>>} : n \notin root.eow

\* C13: inserting a word that search already finds leaves the nodes, the
\* terminal flags, the listWords() set and countWords() as they were.
C13_InsertIdempotent ==
    [][(last'.op = "insert" /\ last'.found)
       => /\ root'.nodes = root.nodes
          /\ root'.eow = root.eow
          /\ Range(listWords(root')) = Range(listWords(root))
          /\ countWords(root') = countWords(root)]_vars

\* C13 witness: a word has just been inserted again beside another word.
C13_Witness ==
    /\ last.op = "insert"
    /\ last.found
    /\ Cardinality(root.eow) >= 2

\* C14: delete(W) for a word W that search does not find (no path, or a path
\* whose end node is not terminal) removes no node and changes no flag.
C14_DeleteAbsentNoOp ==
    [][(last'.op = "delete" /\ ~last'.found) => root' = root]_vars

\* C14 witness: delete has just run on a word that was not stored but was a
\* prefix of a stored word.
C14_Witness ==
    /\ last.op = "delete"
    /\ ~last.found
    /\ last.prefix
    /\ root.eow # {}

\* C15: a batch insert that resolves with success reports processed equal to
\* the number of elements of its input array.
C15_ProcessedIsLength ==
    [][\A c \in Calls :
         (calls[c].pc # "done" /\ calls'[c].pc = "done"
            /\ calls'[c].result.success)
         => calls'[c].result.processed = Len(last'.arg)]_vars

\* C15 witness: a call whose two chunks the worker answered has resolved with
\* success and processed = 2.
C15_Witness ==
    \E c \in Calls :
        /\ calls[c].pc = "done"
        /\ calls[c].result = [success |-> TRUE, processed |-> 2]
        /\ ~calls[c].caught
        /\ promiseId >= 2

\* C16: elements of a batch insert that are the empty string or not a string
\* are skipped without an error: unless the worker could not be made, failed,
\* or did not answer in time, the call resolves with success; a call that
\* resolves with success has made every non-empty string searchable; and no
\* step of a batch insert changes the terminal flag of the root.
C16_SkippedSilently ==
    [][/\ \A c \in Calls :
            (calls[c].pc # "done" /\ calls'[c].pc = "done")
            => /\ (~calls'[c].caught \/ calls'[c].threw)
                    => calls'[c].result.success
               /\ calls'[c].result.success
                    => \A w \in NonEmpty(last'.arg) : search(root', w)
       /\ last'.op = "batch" => (search(root', <<>>) <=> search(root, <<>>))]_vars

\* C17: fuzzySearch is monotone in the distance bound: what fuzzySearch(W, d)
\* returns, fuzzySearch(W, d + 1) returns too.
C17_FuzzyMonotone ==
    \A w \in Words :
        LET found == [d \in 0..MaxDist |-> Range(fuzzySearch(root, w, d))]
        IN  \A d \in 0..(MaxDist - 1) : found[d] \subseteq found[d + 1]

\* C17 witness: for some word the larger bound returns a word more than the
\* smaller bound, which returns a word too.
C17_Witness ==
    \E w \in Words, d \in 0..(MaxDist - 1) :
        /\ Range(fuzzySearch(root, w, d)) # {}
        /\ Range(fuzzySearch(root, w, d)) # Range(fuzzySearch(root, w, d + 1))

\* C18: when a batch call of a non-empty array with a progress callback
\* resolved with success, the callback was invoked at least once, and its last
\* report has processed = total = the input length and percentage = 100, also
\* when the worker path failed and the fallback finished the batch; at every
\* moment the processed values reported so far never decrease and never
\* exceed total, and a call on the worker path has reported once for each
\* chunk it merged.
C18_ProgressReports ==
    LET r == calls[1].reports
    IN  /\ \A i \in 1..Len(r) :
              /\ r[i].processed <= r[i].total
              /\ i > 1 => r[i - 1].processed <= r[i].processed
        /\ calls[1].pc = "awaitReply" => Len(r) = calls[1].i
        /\ (calls[1].pc = "done" /\ calls[1].result.success /\ Len(last.arg) > 0)
              => /\ r # <<>>
                 /\ r[Len(r)] = [processed |-> Len(last.arg),
                                 total |-> Len(last.arg), percentage |-> 100]

\* C18 witness: a call that resolved with success after its catch block ran,
\* its callback handed a report by the worker path and then by the fallback.
C18_Witness ==
    /\ calls[1].pc = "done" /\ calls[1].result.success /\ calls[1].caught
    /\ Len(calls[1].reports) >= 2
    /\ calls[1].reports[1].percentage = 50

\* The nodes of tree t at or below node n.
Subtree(t, n) == {x \in t.nodes : IsPrefix(n, x)}

\* C19: delete(W) of a stored word W clears the flag of W's end node and
\* removes exactly the nodes on W's path, the root apart, that then have no
\* terminal node in their subtree; every other node keeps its children and
\* its flag.
C19_DeletePrunesExactly ==
    [][(last'.op = "delete" /\ last'.found)
        => LET path    == CodePoints(last'.arg)
               eow     == root.eow \ {path}
               removed == {n \in root.nodes \ {<<>>} :
                              /\ IsPrefix(n, path)
                              /\ Subtree(root, n) \cap eow = {}}
           IN  root' = [nodes |-> root.nodes \ removed, eow |-> eow]]_vars

\* The row dfs of fuzzySearch computes at a node: the rows depend on the path
\* from the root alone.
RECURSIVE RowAt(_, _)
RowAt(word, node) ==
    IF node = <<>> THEN FirstRow(word)
    ELSE LET prevRow == RowAt(word, SubSeq(node, 1, Len(node) - 1))
         IN  RowLoop(word, Str(node), prevRow, <<prevRow[1] + 1>>, 1)

\* The search that explores every node: the words it returns.
Unpruned(t, word, maxDistance) ==
    {Str(n) : n \in {x \in t.eow \ {<<>>} :
                        RowAt(word, x)[Len(word) + 1] <= maxDistance}}

\* The nodes dfs of fuzzySearch visits: those below the root whose ancestors
\* below the root all have a row with an entry within the bound.
Visited(t, word, maxDistance) ==
    {n \in t.nodes \ {<<>>} :
        \A j \in 1..(Len(n) - 1) :
            MinOf(RowAt(word, SubSeq(n, 1, j))) <= maxDistance}

\* C20: the pruning of fuzzySearch loses no match (it returns what the same
\* search returns when it explores every node), and the last entry of the
\* row of every node it visits is the Levenshtein distance between the
\* node's path and W.
C20_PruningLosesNothing ==
    \A w \in Words, d \in 0..MaxDist :
        /\ Range(fuzzySearch(root, w, d)) = Unpruned(root, w, d)
        /\ \A n \in Visited(root, w, d) :
               RowAt(w, n)[Len(w) + 1] = Lev(n, CodePoints(w))

\* A sequence that holds no element twice.
NoDuplicate(seq) == Cardinality(Range(seq)) = Len(seq)

\* The patterns over the characters of FewChars and the wildcard symbol.
FewPatterns == {Str(p) : p \in SeqUpTo(FewChars \cup {"."}, MaxLen)}

\* C21: listWords, autocomplete, fuzzySearch and wildcardSearch return every
\* word at most once.
C21_NoDuplicates ==
    /\ NoDuplicate(listWords(root))
    /\ \A p \in FewWords : NoDuplicate(autocomplete(root, p))
    /\ \A w \in FewWords, d \in 0..MaxDist : NoDuplicate(fuzzySearch(root, w, d))
    /\ \A p \in FewPatterns : NoDuplicate(wildcardSearch(root, p))

\* C21 witness: some fuzzySearch and some wildcardSearch return two words or
\* more, and so do listWords and an autocomplete of a non-empty prefix.
C21_Witness ==
    /\ Len(listWords(root)) >= 2
    /\ \E p \in FewWords \ {<<>>} : Len(autocomplete(root, p)) >= 2
    /\ \E w \in FewWords : Len(fuzzySearch(root, w, 1)) >= 2
    /\ \E p \in FewPatterns : Len(wildcardSearch(root, p)) >= 2

\* The workers that were created and not terminated.
Live == {w \in DOMAIN workers : workers[w].alive}

\* The workers whose creating call still waits at
\* `this.worker = await this._createWorker()`.
BeingAssigned == {calls[c].made : c \in {d \in Calls : calls[d].pc = "awaitCreate"}}

\* C22: at most one worker is alive at any time, and every worker alive is
\* the one this.worker holds (or the one about to be assigned to it), also
\* when callers start batch calls without awaiting one another.
C22_OneLiveWorker ==
    /\ Cardinality(Live) <= 1
    /\ \A w \in Live : w = worker \/ w \in BeingAssigned

\* C23: every request gets an id no request of this trie had before; the
\* call that waits for a request goes on only in a step that takes the
\* request's entry out of workerPromises (a reply with its id, a worker error
\* event or its timeout, whichever comes first), and since no id comes back
\* the request is settled at most once; a reply whose id has no entry (it
\* came after the timeout) changes neither the tree nor any call.
C23_SettledOnce ==
    [][/\ promiseId' >= promiseId
       /\ \A id \in workerPromises' \ workerPromises :
             id > promiseId /\ id <= promiseId'
       /\ \A c \in Calls :
             (calls[c].pc = "awaitReply" /\ calls'[c] # calls[c])
             => /\ calls[c].id \in workerPromises \ workerPromises'
                /\ (calls'[c].pc = "awaitReply" => calls'[c].id > promiseId)
       /\ \A w \in DOMAIN workers :
             (/\ workers[w].outbox # <<>>
              /\ workers'[w].alive
              /\ workers'[w].outbox = Tail(workers[w].outbox)
              /\ Head(workers[w].outbox).id \notin workerPromises)
             => /\ root' = root
                /\ calls' = calls
                /\ workerPromises' = workerPromises]_vars

\* C23 witness: a call went on after its request timed out, and the worker's
\* reply to that request, words and all, is still to come in.
C23_Witness ==
    \E w \in Live, c \in Calls :
        /\ calls[c].pc = "done" /\ calls[c].caught /\ ~calls[c].threw
        /\ workers[w].outbox # <<>>
        /\ Head(workers[w].outbox).id \notin workerPromises
        /\ Head(workers[w].outbox).success
        /\ Head(workers[w].outbox).result # <<>>

\* The concatenation of a sequence of sequences, in order.
RECURSIVE Flatten(_)
Flatten(seqs) == IF seqs = <<>> THEN <<>> ELSE Head(seqs) \o Flatten(Tail(seqs))

\* C24: for every input array and chunkSize >= 1 the chunks of a worker-path
\* call hold between 1 and chunkSize elements each and give the input when
\* concatenated in order; the call sends them one by one, chunk i + 1 after
\* the elements of the chunks before it were processed, each with one message
\* to the worker it holds, so no element is sent twice; and a call of the
\* empty array sends no message and resolves with success and processed 0.
C24_ChunksPartition ==
    [][\A c \in Calls :
         LET old    == calls[c]
             call   == calls'[c]
             chunks == _chunkArray(call.words, call.chunkSize)
         IN  /\ (call.pc = "awaitReply" /\ call # old)
                  => /\ Flatten(chunks) = call.words
                     /\ \A k \in 1..Len(chunks) :
                           Len(chunks[k]) >= 1 /\ Len(chunks[k]) <= call.chunkSize
                     /\ call.i < Len(chunks)
                     /\ call.i = IF old.pc = "awaitReply" THEN old.i + 1 ELSE 0
                     /\ call.processedCount = Len(Flatten(SubSeq(chunks, 1, call.i)))
                     /\ promiseId' = promiseId + 1
                     /\ call.id = promiseId'
                     /\ \/ ~workers'[worker'].alive
                        \/ workers'[worker'].inbox
                              = Append(IF worker' \in DOMAIN workers
                                       THEN workers[worker'].inbox ELSE <<>>,
                                       [id |-> call.id, words |-> chunks[call.i + 1]])
             /\ (old.pc # "done" /\ call.pc = "done" /\ ~call.caught)
                  => /\ call.result = [success |-> TRUE,
                                       processed |-> Len(last'.arg)]
                     /\ old.pc = "awaitReply"
                           => old.i + 1 = Len(_chunkArray(old.words, old.chunkSize))
             /\ (old.pc # "done" /\ call.pc = "done" /\ last'.arg = <<>>)
                  => /\ call.result = [success |-> TRUE, processed |-> 0]
                     /\ old.pc # "awaitReply"
                     /\ promiseId' = promiseId]_vars

\* C24 witness: a worker-path call of three elements with chunkSize 2 has
\* resolved with success after two requests, of two elements and of one.
C24_Witness ==
    /\ calls[1].pc = "done"
    /\ ~calls[1].caught
    /\ calls[1].result = [success |-> TRUE, processed |-> 3]
    /\ promiseId = 2

\* C25: when delete(W) directly follows the insert(W) of a word that was not
\* stored, the tree has exactly the nodes and terminal flags it had before
\* the insert.
C25_InsertDeleteRestores ==
    [][(/\ last.op = "insert" /\ ~last.found
        /\ last'.op = "delete" /\ last'.arg = last.arg)
        => root' = before]_vars

\* C26: for every integer chunkSize, zero and negative ones too, a
\* worker-path call whose worker was made gets through the chunking step: it
\* goes on to wait for a reply or to its result.
C26_ChunkingTerminates ==
    \A c \in Calls :
        (calls[c].pc = "awaitCreate" /\ calls[c].made # 0)
            ~> (calls[c].pc \in {"awaitReply", "done"})

=============================================================================
